---- MODULE Spec2Model ----
(***************************************************************************)
(* Raw fingerprinting engine of the fingerprint crate:                     *)
(*   - RawFingerprinter::new / choose_multiple_stable (segment size table) *)
(*   - Fingerprinter::finger over RawSegmentIterator / RawSegment::value   *)
(*   - Fingerprint::compare                                                *)
(*                                                                         *)
(* The ChaCha8 generator is an external crate.  It is modelled as what it  *)
(* is for this program: a deterministic stream of words fixed by the seed. *)
(* The stream for RNG_SEED is discovered lazily: the first time a word     *)
(* position is consumed its word is chosen freely and recorded in          *)
(* `stream`; every later generator state at that position yields the      *)
(* recorded word.  A generator state is its seed and its word position.    *)
(***************************************************************************)
EXTENDS Integers, Sequences, FiniteSets, TLC

\* ------------------------------------------------------------------ bounds
\* lib.rs:22 sets 128; the model is parametric in it and runs it scaled down.
NUM_FINGERPRINT_SEGMENTS == 3
\* Largest file size (bytes) a run is started on.
MaxFileSize == 5
\* Largest number of partition draws that hit an already incremented entry.
MaxRejects == 1
\* The generator's words are 0..MaxWord.
MaxWord == 2
\* Largest bit length of a fingerprint handed to compare.
MaxBits == 3
MaxParFileSize == 1

\* --------------------------------------------------------------- constants
U8_MAX == 255
RNG_SEED == "939270607250626829"

\* Byte values a file is built from (both ends of the u8 range).
ByteVals == {0, 1, U8_MAX}

VARIABLES
    file,           \* the file's bytes (a sequence over 0..U8_MAX)
    stream,         \* words of the generator seeded with RNG_SEED, as far as drawn
    run,            \* 1: first computation, 2: an independent second computation
    pc,             \* position of the computation
    rng,            \* RawFingerprinter.rng (new's local rng before construction)
    segment_sizes,  \* RawFingerprinter.segment_sizes (new's local before construction)
    remainder,      \* choose_multiple_stable's local `remainder`
    initial_segment_size, \* choose_multiple_stable's parameter
    rejects,        \* number of draws of this run that changed nothing
    iter,           \* the RawSegmentIterator of finger's for loop
    fingerprint,    \* finger's local bit vector
    first,          \* finger's local
    last,           \* finger's local
    segments,       \* history: the segments the loop has processed, as left by value()
    nreads,         \* history: bytes read from the file, per processed segment
    prev,           \* result of run 1, kept for the comparison with run 2
    cmp_a,          \* compare: self.bits()
    cmp_b,          \* compare: other.bits()
    cmp_ab,         \* compare: value of a.compare(b), None before the call
    cmp_ba,         \* compare: value of b.compare(a), None before the call
    procs           \* computations running in parallel: each one's own state

vars == <<file, stream, run, pc, rng, segment_sizes, remainder,
          initial_segment_size, rejects, iter, fingerprint, first, last,
          segments, nreads, prev, cmp_a, cmp_b, cmp_ab, cmp_ba, procs>>

engineVars == <<file, stream, run, pc, rng, segment_sizes, remainder,
                initial_segment_size, rejects, iter, fingerprint, first, last,
                segments, nreads, prev>>

compareVars == <<cmp_a, cmp_b, cmp_ab, cmp_ba>>

parVars == <<procs>>

\* ------------------------------------------------------------------ helpers
None == [some |-> FALSE]
Some(x) == [some |-> TRUE, val |-> x]

RECURSIVE SumSeq(_)
SumSeq(s) == IF s = <<>> THEN 0 ELSE Head(s) + SumSeq(Tail(s))

Min(x, y) == IF x <= y THEN x ELSE y

RECURSIVE SeqsUpTo(_, _)
SeqsUpTo(S, n) ==
    IF n = 0 THEN {<<>>}
    ELSE LET shorter == SeqsUpTo(S, n - 1)
         IN shorter \cup {Append(s, x) : s \in {t \in shorter : Len(t) = n - 1}, x \in S}

\* --------------------------------------------------------------- generator
\* Variant: the generator is not started from the seed but goes on where the
\* words drawn so far end (a generator kept or seeded outside the run).
seed_not_fixed(seed) == [seed |-> seed, word_pos |-> Len(stream)]

\* ChaCha8Rng::seed_from_u64: a generator at the start of the seed's stream.
seed_from_u64(seed) == [seed |-> seed, word_pos |-> 0]

\* The words generator state g can yield next: the recorded word where the
\* stream is already known, any word where it is not yet.
Words(g) ==
    IF g.word_pos < Len(stream) THEN {stream[g.word_pos + 1]} ELSE 0..MaxWord

\* The stream after state g has yielded w.
Record(g, w) == IF g.word_pos < Len(stream) THEN stream ELSE Append(stream, w)

\* The generator state after yielding one word.
Advance(g) == [g EXCEPT !.word_pos = @ + 1]

\* rng.gen_range(0..len), from the word the generator yields.
gen_range(w, len) == w % len

\* rng.gen::<u8>(), from the word the generator yields.
gen_u8(w) == w % (U8_MAX + 1)

\* ------------------------------------------------------------- partitioner
\* Variant: the drawn entry is incremented without the test against the
\* initial segment size.
choose_multiple_stable_step_unchecked(sizes, initial, rem, index) ==
    [sizes |-> [sizes EXCEPT ![index + 1] = @ + 1], remainder |-> rem - 1]

\* Variant: a hit increments the entry and leaves the remainder as it was.
choose_multiple_stable_step_no_decrement(sizes, initial, rem, index) ==
    IF index + 1 \in DOMAIN sizes /\ sizes[index + 1] = initial
    THEN [sizes |-> [sizes EXCEPT ![index + 1] = @ + 1], remainder |-> rem]
    ELSE [sizes |-> sizes, remainder |-> rem]

\* One iteration of the while loop of choose_multiple_stable with the drawn index.
choose_multiple_stable_step(sizes, initial, rem, index) ==
    IF index + 1 \in DOMAIN sizes /\ sizes[index + 1] = initial
    THEN [sizes |-> [sizes EXCEPT ![index + 1] = @ + 1], remainder |-> rem - 1]
    ELSE [sizes |-> sizes, remainder |-> rem]

\* size.div_rem(NUM_FINGERPRINT_SEGMENTS)
div_rem(size, n) == [quot |-> size \div n, rem |-> size % n]

\* RawFingerprinter::new up to the call of choose_multiple_stable.
New ==
    /\ pc = "start"
    /\ LET size == Len(file)
           dr == div_rem(size, NUM_FINGERPRINT_SEGMENTS)
       IN /\ rng' = seed_from_u64(RNG_SEED)
          /\ segment_sizes' = [i \in 1..NUM_FINGERPRINT_SEGMENTS |-> dr.quot]
          /\ initial_segment_size' = dr.quot
          /\ remainder' = dr.rem
    /\ pc' = "choose"
    /\ UNCHANGED <<file, stream, run, rejects, iter, fingerprint, first, last,
                   segments, nreads, prev>>
    /\ UNCHANGED compareVars
    /\ UNCHANGED parVars

\* One iteration of `while remainder > 0` in choose_multiple_stable.
ChooseStep ==
    /\ pc = "choose"
    /\ remainder > 0
    /\ \E w \in Words(rng) :
        LET index == gen_range(w, Len(segment_sizes))
            r == choose_multiple_stable_step(segment_sizes, initial_segment_size,
                                             remainder, index)
            hit == r.remainder # remainder
        IN /\ hit \/ rejects < MaxRejects
           /\ stream' = Record(rng, w)
           /\ rng' = Advance(rng)
           /\ segment_sizes' = r.sizes
           /\ remainder' = r.remainder
           /\ rejects' = IF hit THEN rejects ELSE rejects + 1
    /\ UNCHANGED <<file, run, pc, initial_segment_size, iter, fingerprint, first,
                   last, segments, nreads, prev>>
    /\ UNCHANGED compareVars
    /\ UNCHANGED parVars

\* choose_multiple_stable returns; new opens the file and builds Self.
NewReturn ==
    /\ pc = "choose"
    /\ remainder = 0
    /\ \E opened \in BOOLEAN : pc' = IF opened THEN "constructed" ELSE "new_failed"
    /\ UNCHANGED <<file, stream, run, rng, segment_sizes, remainder,
                   initial_segment_size, rejects, iter, fingerprint, first, last,
                   segments, nreads, prev>>
    /\ UNCHANGED compareVars
    /\ UNCHANGED parVars

\* ------------------------------------------------------------------ engine
Ok(x) == [ok |-> TRUE, val |-> x]
Err == [ok |-> FALSE]

\* Variant: the iterator gets a newly seeded generator, not a clone of the
\* fingerprinter's.
into_iter_reseeded(fp_rng) ==
    [index |-> 0, pos |-> 0, rng |-> [fp_rng EXCEPT !.word_pos = 0]]

\* <&RawFingerprinter as IntoIterator>::into_iter
into_iter(fp_rng) == [index |-> 0, pos |-> 0, rng |-> fp_rng]

\* Variant: the iterator's running offset is not moved past the segment.
RawSegmentIterator_next_no_advance(it, sizes, w) ==
    LET index == it.index
        start_pos == it.pos
        end_pos == start_pos + sizes[index + 1]
        size == end_pos - start_pos
    IN [iter |-> [index |-> index + 1,
                  pos |-> start_pos,
                  rng |-> IF size = 0 THEN Advance(it.rng) ELSE it.rng],
        item |-> [index |-> index,
                  pos |-> start_pos,
                  size |-> size,
                  value |-> IF size = 0 THEN Some(gen_u8(w)) ELSE None]]

\* Variant: an empty segment is created without a value, like any other.
RawSegmentIterator_next_no_fallback(it, sizes, w) ==
    LET index == it.index
        start_pos == it.pos
        end_pos == start_pos + sizes[index + 1]
        size == end_pos - start_pos
    IN [iter |-> [index |-> index + 1,
                  pos |-> end_pos,
                  rng |-> it.rng],
        item |-> [index |-> index,
                  pos |-> start_pos,
                  size |-> size,
                  value |-> None]]

\* Variant: the iterator's generator is asked for every segment.
RawSegmentIterator_next_always_draws(it, sizes, w) ==
    LET index == it.index
        start_pos == it.pos
        end_pos == start_pos + sizes[index + 1]
        size == end_pos - start_pos
    IN [iter |-> [index |-> index + 1,
                  pos |-> end_pos,
                  rng |-> Advance(it.rng)],
        item |-> [index |-> index,
                  pos |-> start_pos,
                  size |-> size,
                  value |-> IF size = 0 THEN Some(gen_u8(w)) ELSE None]]

\* RawSegmentIterator::next for index < NUM_FINGERPRINT_SEGMENTS; w is the word
\* its generator yields if it is asked.
RawSegmentIterator_next(it, sizes, w) ==
    LET index == it.index
        start_pos == it.pos
        end_pos == start_pos + sizes[index + 1]
        size == end_pos - start_pos
    IN [iter |-> [index |-> index + 1,
                  pos |-> end_pos,
                  rng |-> IF size = 0 THEN Advance(it.rng) ELSE it.rng],
        item |-> [index |-> index,
                  pos |-> start_pos,
                  size |-> size,
                  value |-> IF size = 0 THEN Some(gen_u8(w)) ELSE None]]

\* The words RawSegmentIterator::next can be handed: its generator's next
\* word when the segment is empty (the only case that asks the generator),
\* no word of the stream otherwise.
NextWords(it, sizes) ==
    IF sizes[it.index + 1] = 0 THEN Words(it.rng) ELSE {0}

\* handle.read_exact_at(&mut data, pos): one byte of the file behind the
\* fingerprinter's handle, or an error.
read_exact_at(handle, pos, io_error) ==
    IF io_error \/ pos >= Len(handle) THEN Err ELSE Ok(handle[pos + 1])

\* RawElementIterator::next for index < segment.size.
RawElementIterator_next(handle, seg, index, fail_at) ==
    LET pos == seg.pos + index
    IN [index |-> index, pos |-> pos, data |-> read_exact_at(handle, pos, index = fail_at)]

\* `x as u8`
as_u8(x) == x % (U8_MAX + 1)

\* Variant: the fold over a u8 accumulator that wraps.
RECURSIVE try_fold_u8(_, _, _, _, _)
try_fold_u8(handle, seg, index, total, fail_at) ==
    IF index >= seg.size THEN [ok |-> TRUE, total |-> total, reads |-> index]
    ELSE LET element == RawElementIterator_next(handle, seg, index, fail_at)
         IN IF ~element.data.ok
            THEN [ok |-> FALSE, total |-> total, reads |-> index + 1]
            ELSE try_fold_u8(handle, seg, index + 1, as_u8(total + element.data.val), fail_at)

\* self.into_iter().try_fold(0u128, |total, element| Ok(total + element.data()?))
\* from element `index` on; `reads` counts the bytes asked of the file.
RECURSIVE try_fold(_, _, _, _, _)
try_fold(handle, seg, index, total, fail_at) ==
    IF index >= seg.size THEN [ok |-> TRUE, total |-> total, reads |-> index]
    ELSE LET element == RawElementIterator_next(handle, seg, index, fail_at)
         IN IF ~element.data.ok
            THEN [ok |-> FALSE, total |-> total, reads |-> index + 1]
            ELSE try_fold(handle, seg, index + 1, total + element.data.val, fail_at)

\* Variant: value() without the memoized case.
RawSegment_value_no_memo(handle, seg, fail_at) ==
    LET f == try_fold(handle, seg, 0, 0, fail_at)
    IN IF ~f.ok
       THEN [ok |-> FALSE, panic |-> FALSE, val |-> 0, seg |-> seg, reads |-> f.reads]
       ELSE IF seg.size = 0
       THEN [ok |-> FALSE, panic |-> TRUE, val |-> 0, seg |-> seg, reads |-> f.reads]
       ELSE LET value == as_u8(f.total \div seg.size)
            IN [ok |-> TRUE, panic |-> FALSE, val |-> value,
                seg |-> [seg EXCEPT !.value = Some(value)], reads |-> f.reads]

\* Variant: a failed read is swallowed and counts as the value 0.
RawSegment_value_swallow(handle, seg, fail_at) ==
    IF seg.value.some
    THEN [ok |-> TRUE, panic |-> FALSE, val |-> seg.value.val, seg |-> seg, reads |-> 0]
    ELSE LET f == try_fold(handle, seg, 0, 0, fail_at)
         IN IF ~f.ok
            THEN [ok |-> TRUE, panic |-> FALSE, val |-> 0, seg |-> seg, reads |-> f.reads]
            ELSE IF seg.size = 0
            THEN [ok |-> FALSE, panic |-> TRUE, val |-> 0, seg |-> seg, reads |-> f.reads]
            ELSE LET value == as_u8(f.total \div seg.size)
                 IN [ok |-> TRUE, panic |-> FALSE, val |-> value,
                     seg |-> [seg EXCEPT !.value = Some(value)], reads |-> f.reads]

\* Variant: value() does not keep the value it has computed.
RawSegment_value_no_store(handle, seg, fail_at) ==
    IF seg.value.some
    THEN [ok |-> TRUE, panic |-> FALSE, val |-> seg.value.val, seg |-> seg, reads |-> 0]
    ELSE LET f == try_fold(handle, seg, 0, 0, fail_at)
         IN IF ~f.ok
            THEN [ok |-> FALSE, panic |-> FALSE, val |-> 0, seg |-> seg, reads |-> f.reads]
            ELSE IF seg.size = 0
            THEN [ok |-> FALSE, panic |-> TRUE, val |-> 0, seg |-> seg, reads |-> f.reads]
            ELSE LET value == as_u8(f.total \div seg.size)
                 IN [ok |-> TRUE, panic |-> FALSE, val |-> value,
                     seg |-> seg, reads |-> f.reads]

\* RawSegment::value; fail_at is the element whose read fails (seg.size: none).
RawSegment_value(handle, seg, fail_at) ==
    IF seg.value.some
    THEN [ok |-> TRUE, panic |-> FALSE, val |-> seg.value.val, seg |-> seg, reads |-> 0]
    ELSE LET f == try_fold(handle, seg, 0, 0, fail_at)
         IN IF ~f.ok
            THEN [ok |-> FALSE, panic |-> FALSE, val |-> 0, seg |-> seg, reads |-> f.reads]
            ELSE IF seg.size = 0
            THEN [ok |-> FALSE, panic |-> TRUE, val |-> 0, seg |-> seg, reads |-> f.reads]
            ELSE LET value == as_u8(f.total \div seg.size)
                 IN [ok |-> TRUE, panic |-> FALSE, val |-> value,
                     seg |-> [seg EXCEPT !.value = Some(value)], reads |-> f.reads]

\* fingerprint.set(i, true); bitvec panics on an index out of range.
set(bits, i) ==
    IF i >= 0 /\ i < Len(bits)
    THEN [panic |-> FALSE, bits |-> [bits EXCEPT ![i + 1] = TRUE]]
    ELSE [panic |-> TRUE, bits |-> bits]

\* finger before its loop: the zeroed bit vector and the segment iterator.
FingerBegin ==
    /\ pc = "constructed"
    /\ fingerprint' = [i \in 1..NUM_FINGERPRINT_SEGMENTS |-> FALSE]
    /\ first' = None
    /\ last' = None
    /\ iter' = into_iter(rng)
    /\ segments' = <<>>
    /\ nreads' = <<>>
    /\ pc' = "loop"
    /\ UNCHANGED <<file, stream, run, rng, segment_sizes, remainder,
                   initial_segment_size, rejects, prev>>
    /\ UNCHANGED compareVars
    /\ UNCHANGED parVars

\* Variant: the bit is set on a strictly greater summary only.
finger_body_strict(bits, fst, lst, seg, value, value2) ==
    LET s == IF lst.some /\ value > lst.val
             THEN set(bits, seg.index - 1)
             ELSE [panic |-> FALSE, bits |-> bits]
    IN [panic |-> s.panic,
        fingerprint |-> s.bits,
        first |-> IF lst.some THEN fst ELSE Some(value2),
        last |-> Some(value)]

\* Variant: the adjacent-pair bit is written at the segment's own index.
finger_body_own_index(bits, fst, lst, seg, value, value2) ==
    LET s == IF lst.some /\ value >= lst.val
             THEN set(bits, seg.index)
             ELSE [panic |-> FALSE, bits |-> bits]
    IN [panic |-> s.panic,
        fingerprint |-> s.bits,
        first |-> IF lst.some THEN fst ELSE Some(value2),
        last |-> Some(value)]

\* The body of `for mut segment in self` for a segment whose value is `value`.
finger_body(bits, fst, lst, seg, value, value2) ==
    LET s == IF lst.some /\ value >= lst.val
             THEN set(bits, seg.index - 1)
             ELSE [panic |-> FALSE, bits |-> bits]
    IN [panic |-> s.panic,
        fingerprint |-> s.bits,
        first |-> IF lst.some THEN fst ELSE Some(value2),
        last |-> Some(value)]

\* One iteration of finger's loop: the iterator's next, value(), the match.
FingerSegment ==
    /\ pc = "loop"
    /\ iter.index < NUM_FINGERPRINT_SEGMENTS
    /\ \E w \in NextWords(iter, segment_sizes) :
        LET nx == RawSegmentIterator_next(iter, segment_sizes, w)
            drew == nx.iter.rng # iter.rng
        IN \E fail_at \in 0..nx.item.size :
            LET v == RawSegment_value(file, nx.item, fail_at)
                \* `first = Some(segment.value()?)`: the second call of value()
                v2 == RawSegment_value(file, v.seg, fail_at)
                b == finger_body(fingerprint, first, last, v.seg, v.val, v2.val)
            IN /\ iter' = nx.iter
               /\ stream' = IF drew THEN Record(iter.rng, w) ELSE stream
               /\ nreads' = Append(nreads, v.reads + IF v.ok /\ ~last.some
                                                      THEN v2.reads ELSE 0)
               /\ segments' = Append(segments, v.seg)
               /\ IF v.panic \/ (v.ok /\ b.panic)
                  THEN /\ pc' = "panicked"
                       /\ UNCHANGED <<fingerprint, first, last>>
                  ELSE IF ~v.ok
                  THEN /\ pc' = "failed"
                       /\ UNCHANGED <<fingerprint, first, last>>
                  ELSE /\ pc' = "loop"
                       /\ fingerprint' = b.fingerprint
                       /\ first' = b.first
                       /\ last' = b.last
    /\ UNCHANGED <<file, run, rng, segment_sizes, remainder,
                   initial_segment_size, rejects, prev>>
    /\ UNCHANGED compareVars
    /\ UNCHANGED parVars

\* Variant: the wraparound comparison with its operands exchanged.
finger_end_swapped(bits, fst, lst) ==
    IF ~fst.some \/ ~lst.some THEN [ok |-> FALSE, panic |-> FALSE, bits |-> bits]
    ELSE IF lst.val >= fst.val
    THEN LET s == set(bits, NUM_FINGERPRINT_SEGMENTS - 1)
         IN [ok |-> ~s.panic, panic |-> s.panic, bits |-> s.bits]
    ELSE [ok |-> TRUE, panic |-> FALSE, bits |-> bits]

\* finger after its loop: the wraparound bit and the return.
finger_end(bits, fst, lst) ==
    IF ~fst.some \/ ~lst.some THEN [ok |-> FALSE, panic |-> FALSE, bits |-> bits]
    ELSE IF fst.val >= lst.val
    THEN LET s == set(bits, NUM_FINGERPRINT_SEGMENTS - 1)
         IN [ok |-> ~s.panic, panic |-> s.panic, bits |-> s.bits]
    ELSE [ok |-> TRUE, panic |-> FALSE, bits |-> bits]

FingerEnd ==
    /\ pc = "loop"
    /\ iter.index >= NUM_FINGERPRINT_SEGMENTS
    /\ LET e == finger_end(fingerprint, first, last)
       IN /\ fingerprint' = e.bits
          /\ pc' = IF e.panic THEN "panicked" ELSE IF e.ok THEN "done" ELSE "failed"
    /\ UNCHANGED <<file, stream, run, rng, segment_sizes, remainder,
                   initial_segment_size, rejects, iter, first, last, segments,
                   nreads, prev>>
    /\ UNCHANGED compareVars
    /\ UNCHANGED parVars

\* ------------------------------------------------- two independent runs
\* The state of a process before RawFingerprinter::new is called.
Fresh ==
    /\ pc = "start"
    /\ rng = seed_from_u64(RNG_SEED)
    /\ segment_sizes = <<>>
    /\ remainder = 0
    /\ initial_segment_size = 0
    /\ rejects = 0
    /\ iter = into_iter(seed_from_u64(RNG_SEED))
    /\ fingerprint = <<>>
    /\ first = None
    /\ last = None
    /\ segments = <<>>
    /\ nreads = <<>>

\* What a finished run leaves to its caller.
Outcome == [pc |-> pc, segment_sizes |-> segment_sizes, fingerprint |-> fingerprint,
            segments |-> segments]

\* A second, independent computation over the same file (a new process),
\* started once the first has returned its fingerprint: it keeps nothing of
\* the first but the file; `prev` remembers the first's outcome for the
\* comparison.
Rerun ==
    /\ run = 1
    /\ pc = "done"
    /\ prev' = Some(Outcome)
    /\ run' = 2
    /\ pc' = "start"
    /\ rng' = seed_from_u64(RNG_SEED)
    /\ segment_sizes' = <<>>
    /\ remainder' = 0
    /\ initial_segment_size' = 0
    /\ rejects' = 0
    /\ iter' = into_iter(seed_from_u64(RNG_SEED))
    /\ fingerprint' = <<>>
    /\ first' = None
    /\ last' = None
    /\ segments' = <<>>
    /\ nreads' = <<>>
    /\ UNCHANGED <<file, stream>>
    /\ UNCHANGED compareVars
    /\ UNCHANGED parVars

CompareIdle ==
    /\ cmp_a = <<>>
    /\ cmp_b = <<>>
    /\ cmp_ab = None
    /\ cmp_ba = None

\* The file of NUM_FINGERPRINT_SEGMENTS bytes whose byte at offset i is i.
IncreasingFile == [i \in 1..NUM_FINGERPRINT_SEGMENTS |-> i - 1]

Files == SeqsUpTo(ByteVals, MaxFileSize) \cup {IncreasingFile}

Init ==
    /\ file \in Files
    /\ stream = <<>>
    /\ run = 1
    /\ prev = None
    /\ Fresh
    /\ CompareIdle
    /\ procs = <<>>

Next ==
    \/ New
    \/ ChooseStep
    \/ NewReturn
    \/ FingerBegin
    \/ FingerSegment
    \/ FingerEnd
    \/ Rerun

Spec == Init /\ [][Next]_vars

\* ---------------------------------------------- construction, fair draws
\* The iteration of the loop in which gen_range yields index i.
ChooseIndex(i) ==
    /\ ChooseStep
    /\ gen_range(stream'[rng.word_pos + 1], Len(segment_sizes)) = i

NextChoose ==
    \/ New
    \/ ChooseStep
    \/ NewReturn

\* The loop keeps running, and no index is left out of the draws for ever.
SpecChoose ==
    /\ Init
    /\ [][NextChoose]_vars
    /\ \A i \in 0..(NUM_FINGERPRINT_SEGMENTS - 1) : WF_vars(ChooseIndex(i))

\* ------------------------------------ finger twice on one fingerprinter
\* A second call of finger on the same RawFingerprinter, after the first has
\* returned its vector: a new bit vector and a new iterator over the same
\* table and generator; `prev` remembers the first call's outcome.
FingerAgain ==
    /\ run = 1
    /\ pc = "done"
    /\ prev' = Some(Outcome)
    /\ run' = 2
    /\ fingerprint' = [i \in 1..NUM_FINGERPRINT_SEGMENTS |-> FALSE]
    /\ first' = None
    /\ last' = None
    /\ iter' = into_iter(rng)
    /\ segments' = <<>>
    /\ nreads' = <<>>
    /\ pc' = "loop"
    /\ UNCHANGED <<file, stream, rng, segment_sizes, remainder,
                   initial_segment_size, rejects>>
    /\ UNCHANGED compareVars
    /\ UNCHANGED parVars

NextAgain ==
    \/ New
    \/ ChooseStep
    \/ NewReturn
    \/ FingerBegin
    \/ FingerSegment
    \/ FingerEnd
    \/ FingerAgain

SpecAgain == Init /\ [][NextAgain]_vars

\* ------------------------------------------------ parallel computations
\* Two callers, each computing the fingerprint of a file of its own.
Procs == {1, 2}

ParByteVals == {0, U8_MAX}

ParFiles == SeqsUpTo(ParByteVals, MaxParFileSize)

\* A caller's state before it calls RawFingerprinter::new on its file.
FreshProc(f) ==
    [file |-> f,
     pc |-> "start",
     rng |-> seed_from_u64(RNG_SEED),
     segment_sizes |-> <<>>,
     remainder |-> 0,
     initial_segment_size |-> 0,
     rejects |-> 0,
     iter |-> into_iter(seed_from_u64(RNG_SEED)),
     fingerprint |-> <<>>,
     first |-> None,
     last |-> None]

\* Variant: there is one generator, the first computation's, and every
\* computation draws from it.
rng_of_shared(ps, p) == ps[1].rng

\* self.rng of computation p's fingerprinter (new's local rng before that).
rng_of(ps, p) == ps[p].rng

ParNew(p) ==
    /\ procs[p].pc = "start"
    /\ LET size == Len(procs[p].file)
           dr == div_rem(size, NUM_FINGERPRINT_SEGMENTS)
       IN procs' = [procs EXCEPT ![p] =
                [@ EXCEPT !.rng = seed_from_u64(RNG_SEED),
                          !.segment_sizes = [i \in 1..NUM_FINGERPRINT_SEGMENTS |-> dr.quot],
                          !.initial_segment_size = dr.quot,
                          !.remainder = dr.rem,
                          !.pc = "choose"]]
    /\ UNCHANGED engineVars
    /\ UNCHANGED compareVars

ParChooseStep(p) ==
    /\ procs[p].pc = "choose"
    /\ procs[p].remainder > 0
    /\ \E w \in Words(rng_of(procs, p)) :
        LET c == procs[p]
            g == rng_of(procs, p)
            index == gen_range(w, Len(c.segment_sizes))
            r == choose_multiple_stable_step(c.segment_sizes, c.initial_segment_size,
                                             c.remainder, index)
            hit == r.remainder # c.remainder
        IN /\ hit \/ c.rejects < MaxRejects
           /\ stream' = Record(g, w)
           /\ procs' = [procs EXCEPT ![p] =
                    [@ EXCEPT !.rng = Advance(g),
                              !.segment_sizes = r.sizes,
                              !.remainder = r.remainder,
                              !.rejects = IF hit THEN @ ELSE @ + 1]]
    /\ UNCHANGED <<file, run, pc, rng, segment_sizes, remainder,
                   initial_segment_size, rejects, iter, fingerprint, first, last,
                   segments, nreads, prev>>
    /\ UNCHANGED compareVars

ParNewReturn(p) ==
    /\ procs[p].pc = "choose"
    /\ procs[p].remainder = 0
    /\ \E opened \in BOOLEAN :
        procs' = [procs EXCEPT ![p].pc = IF opened THEN "constructed" ELSE "new_failed"]
    /\ UNCHANGED engineVars
    /\ UNCHANGED compareVars

ParFingerBegin(p) ==
    /\ procs[p].pc = "constructed"
    /\ procs' = [procs EXCEPT ![p] =
            [@ EXCEPT !.fingerprint = [i \in 1..NUM_FINGERPRINT_SEGMENTS |-> FALSE],
                      !.first = None,
                      !.last = None,
                      !.iter = into_iter(rng_of(procs, p)),
                      !.pc = "loop"]]
    /\ UNCHANGED engineVars
    /\ UNCHANGED compareVars

ParFingerSegment(p) ==
    /\ procs[p].pc = "loop"
    /\ procs[p].iter.index < NUM_FINGERPRINT_SEGMENTS
    /\ \E w \in NextWords(procs[p].iter, procs[p].segment_sizes) :
        LET c == procs[p]
            nx == RawSegmentIterator_next(c.iter, c.segment_sizes, w)
            drew == nx.iter.rng # c.iter.rng
        IN \E fail_at \in 0..nx.item.size :
            LET v == RawSegment_value(c.file, nx.item, fail_at)
                v2 == RawSegment_value(c.file, v.seg, fail_at)
                b == finger_body(c.fingerprint, c.first, c.last, v.seg, v.val, v2.val)
            IN /\ stream' = IF drew THEN Record(c.iter.rng, w) ELSE stream
               /\ procs' = [procs EXCEPT ![p] =
                        IF v.panic \/ (v.ok /\ b.panic)
                        THEN [@ EXCEPT !.iter = nx.iter, !.pc = "panicked"]
                        ELSE IF ~v.ok
                        THEN [@ EXCEPT !.iter = nx.iter, !.pc = "failed"]
                        ELSE [@ EXCEPT !.iter = nx.iter,
                                       !.fingerprint = b.fingerprint,
                                       !.first = b.first,
                                       !.last = b.last]]
    /\ UNCHANGED <<file, run, pc, rng, segment_sizes, remainder,
                   initial_segment_size, rejects, iter, fingerprint, first, last,
                   segments, nreads, prev>>
    /\ UNCHANGED compareVars

ParFingerEnd(p) ==
    /\ procs[p].pc = "loop"
    /\ procs[p].iter.index >= NUM_FINGERPRINT_SEGMENTS
    /\ LET e == finger_end(procs[p].fingerprint, procs[p].first, procs[p].last)
       IN procs' = [procs EXCEPT ![p] =
                [@ EXCEPT !.fingerprint = e.bits,
                          !.pc = IF e.panic THEN "panicked"
                                 ELSE IF e.ok THEN "done" ELSE "failed"]]
    /\ UNCHANGED engineVars
    /\ UNCHANGED compareVars

InitParallel ==
    /\ \E f1, f2 \in ParFiles :
        /\ f1 # f2
        /\ Len(f1) <= Len(f2)
        /\ procs = [p \in Procs |-> FreshProc(IF p = 1 THEN f1 ELSE f2)]
    /\ file = <<>>
    /\ stream = <<>>
    /\ run = 1
    /\ prev = None
    /\ Fresh
    /\ CompareIdle

NextParallel ==
    \/ \E p \in Procs : ParNew(p)
    \/ \E p \in Procs : ParChooseStep(p)
    \/ \E p \in Procs : ParNewReturn(p)
    \/ \E p \in Procs : ParFingerBegin(p)
    \/ \E p \in Procs : ParFingerSegment(p)
    \/ \E p \in Procs : ParFingerEnd(p)

SpecParallel == InitParallel /\ [][NextParallel]_vars

\* A computation run alone, over the words of the stream drawn so far: the
\* partitioner loop,
RECURSIVE choose_alone(_, _, _, _)
choose_alone(sizes, initial, rem, g) ==
    IF rem = 0 \/ g.word_pos >= Len(stream)
    THEN [sizes |-> sizes, remainder |-> rem, rng |-> g]
    ELSE LET index == gen_range(stream[g.word_pos + 1], Len(sizes))
             r == choose_multiple_stable_step(sizes, initial, rem, index)
         IN choose_alone(r.sizes, initial, r.remainder, Advance(g))

\* finger's loop and return without a failed read,
RECURSIVE loop_alone(_, _, _, _, _, _)
loop_alone(handle, sizes, it, bits, fst, lst) ==
    IF it.index >= NUM_FINGERPRINT_SEGMENTS
    THEN LET e == finger_end(bits, fst, lst)
         IN [ok |-> e.ok, bits |-> e.bits]
    ELSE IF sizes[it.index + 1] = 0 /\ it.rng.word_pos >= Len(stream)
    THEN [ok |-> FALSE, bits |-> bits]
    ELSE LET w == IF sizes[it.index + 1] = 0 THEN stream[it.rng.word_pos + 1] ELSE 0
             nx == RawSegmentIterator_next(it, sizes, w)
             v == RawSegment_value(handle, nx.item, nx.item.size)
             v2 == RawSegment_value(handle, v.seg, nx.item.size)
             b == finger_body(bits, fst, lst, v.seg, v.val, v2.val)
         IN IF ~v.ok \/ b.panic
            THEN [ok |-> FALSE, bits |-> bits]
            ELSE loop_alone(handle, sizes, nx.iter, b.fingerprint, b.first, b.last)

\* and the whole of new and finger on the file behind `handle`.
new_alone(handle) ==
    LET dr == div_rem(Len(handle), NUM_FINGERPRINT_SEGMENTS)
    IN choose_alone([i \in 1..NUM_FINGERPRINT_SEGMENTS |-> dr.quot], dr.quot, dr.rem,
                    seed_from_u64(RNG_SEED))

finger_alone(handle) ==
    LET fp == new_alone(handle)
    IN IF fp.remainder # 0
       THEN [ok |-> FALSE, bits |-> <<>>]
       ELSE loop_alone(handle, fp.sizes, into_iter(fp.rng),
                       [i \in 1..NUM_FINGERPRINT_SEGMENTS |-> FALSE], None, None)

\* ------------------------------------------------------------------ scorer
\* An f64 that is the quotient of two small integers is kept as that
\* quotient; 0.0 / 0.0 is NaN and x / 0.0 for x > 0 is +infinity.
NaN == [kind |-> "nan", num |-> 0, den |-> 1]
Infinity == [kind |-> "inf", num |-> 1, den |-> 1]

\* `x as f64 / y as f64` for integers x, y >= 0.
f64_div(x, y) ==
    IF y = 0 THEN (IF x = 0 THEN NaN ELSE Infinity)
    ELSE [kind |-> "num", num |-> x, den |-> y]

\* `x == y` on f64: NaN equals nothing, itself included.
f64_eq(x, y) ==
    /\ x.kind # "nan"
    /\ y.kind # "nan"
    /\ x.kind = y.kind
    /\ x.kind = "num" => x.num * y.den = y.num * x.den

\* `x <= y` on f64.
f64_le(x, y) ==
    /\ x.kind # "nan"
    /\ y.kind # "nan"
    /\ \/ y.kind = "inf"
       \/ x.kind = "num" /\ y.kind = "num" /\ x.num * y.den <= y.num * x.den

\* f64::max: the other operand when one is NaN.
f64_max(x, y) ==
    IF x.kind = "nan" THEN y
    ELSE IF y.kind = "nan" THEN x
    ELSE IF f64_le(x, y) THEN y ELSE x

\* The loop `for i in 0..min_len` of compare from position i on.
RECURSIVE matching_bits(_, _, _, _)
matching_bits(bits_self, bits_other, i, min_len) ==
    IF i >= min_len THEN 0
    ELSE (IF bits_self[i + 1] = bits_other[i + 1] THEN 1 ELSE 0)
         + matching_bits(bits_self, bits_other, i + 1, min_len)

\* bits_other_slice.iter().rev().collect()
rev(bits) == [i \in 1..Len(bits) |-> bits[Len(bits) + 1 - i]]

\* a.iter().zip(b.iter()).filter(|(a, b)| a == b).count()
zip_filter_count(a, b) ==
    Cardinality({i \in 1..Min(Len(a), Len(b)) : a[i] = b[i]})

\* The two scores compare computes.
similarities(bits_self, bits_other) ==
    LET min_len == Min(Len(bits_self), Len(bits_other))
        matching == matching_bits(bits_self, bits_other, 0, min_len)
        reversed_matching == zip_filter_count(bits_self, rev(bits_other))
    IN [similarity |-> f64_div(matching, min_len),
        reversed_similarity |-> f64_div(reversed_matching, min_len)]

\* Variant: the maximum of the two scores is returned, as the doc comment says.
compare_max(bits_self, bits_other) ==
    LET sc == similarities(bits_self, bits_other)
    IN f64_max(sc.similarity, sc.reversed_similarity)

\* Fingerprint::compare on the two bit vectors.
compare(bits_self, bits_other) ==
    similarities(bits_self, bits_other).similarity

\* first.compare(&second)
CompareAB ==
    /\ cmp_ab = None
    /\ cmp_ab' = Some(compare(cmp_a, cmp_b))
    /\ UNCHANGED <<cmp_a, cmp_b, cmp_ba>>
    /\ UNCHANGED engineVars
    /\ UNCHANGED parVars

\* second.compare(&first)
CompareBA ==
    /\ cmp_ba = None
    /\ cmp_ba' = Some(compare(cmp_b, cmp_a))
    /\ UNCHANGED <<cmp_a, cmp_b, cmp_ab>>
    /\ UNCHANGED engineVars
    /\ UNCHANGED parVars

\* Bit vectors of the fingerprints handed to compare (any length from 0 on:
\* the video variant's vector is as long as its frames make it).
BitVectors == SeqsUpTo(BOOLEAN, MaxBits)

InitCompare ==
    /\ cmp_a \in BitVectors
    /\ cmp_b \in BitVectors
    /\ cmp_ab = None
    /\ cmp_ba = None
    /\ file = <<>>
    /\ stream = <<>>
    /\ run = 1
    /\ prev = None
    /\ Fresh
    /\ procs = <<>>

NextCompare ==
    \/ CompareAB
    \/ CompareBA

SpecCompare == InitCompare /\ [][NextCompare]_vars

\* ------------------------------------------------------------ vocabulary
\* The call of choose_multiple_stable of this run has returned.
TableBuilt == pc # "start" /\ remainder = 0

\* Offset of the j-th segment (j = index + 1) as the table alone fixes it.
Offset(j) == SumSeq(SubSeq(segment_sizes, 1, j - 1))

\* The bytes of the file that the table gives to the j-th segment.
BytesOf(j) == SubSeq(file, Offset(j) + 1, Offset(j) + segment_sizes[j])

\* The summary value() has returned for the j-th processed segment.
SummaryOf(j) == segments[j].value.val

\* Number of empty segments before the j-th.
ZerosBefore(j) == Cardinality({k \in 1..(j - 1) : segment_sizes[k] = 0})

\* ------------------------------------------------------------------ C1
\* C1: once choose_multiple_stable has returned, whatever indices were
\* drawn, the table has exactly NUM_FINGERPRINT_SEGMENTS entries, they sum to
\* the file size N, every entry is floor(N/S) or floor(N/S)+1, and exactly
\* N mod S entries are floor(N/S)+1.
C1_PartitionInvariant ==
    TableBuilt =>
        LET N == Len(file)
            base == N \div NUM_FINGERPRINT_SEGMENTS
        IN /\ Len(segment_sizes) = NUM_FINGERPRINT_SEGMENTS
           /\ SumSeq(segment_sizes) = N
           /\ \A i \in DOMAIN segment_sizes : segment_sizes[i] \in {base, base + 1}
           /\ Cardinality({i \in DOMAIN segment_sizes : segment_sizes[i] = base + 1})
                = N % NUM_FINGERPRINT_SEGMENTS

\* A table built with a remainder, after a draw that hit an incremented entry.
C1_Witness ==
    /\ pc = "constructed"
    /\ Len(file) % NUM_FINGERPRINT_SEGMENTS > 1
    /\ Len(file) > NUM_FINGERPRINT_SEGMENTS
    /\ rejects > 0

\* ------------------------------------------------------------------ C2
\* C2: a second, independent run over the same file, seeded again with
\* RNG_SEED, builds the same segment size table as the first run and, when it
\* succeeds, returns the same bit vector.
C2_Determinism ==
    (run = 2 /\ prev.some) =>
        /\ TableBuilt => segment_sizes = prev.val.segment_sizes
        /\ pc = "done" => fingerprint = prev.val.fingerprint

\* A second run that finished on a file with an empty segment (a fallback
\* draw) and a partition draw that was rejected.
C2_Witness ==
    /\ run = 2
    /\ pc = "done"
    /\ rejects > 0
    /\ \E i \in DOMAIN segment_sizes : segment_sizes[i] = 0
    /\ \E i \in DOMAIN segment_sizes : segment_sizes[i] > 0
    /\ \E i \in DOMAIN fingerprint : fingerprint[i]

\* ------------------------------------------------------------------ C3
\* The adjacent-pair bits of a returned vector follow the summaries.
C3_BitsFollowSummaries ==
    pc = "done" =>
        \A i \in 1..(NUM_FINGERPRINT_SEGMENTS - 1) :
            fingerprint[(i - 1) + 1] <=> (SummaryOf(i + 1) >= SummaryOf((i - 1) + 1))

\* The vector is all-zero when the loop starts.
C3_StartsZero ==
    (pc = "loop" /\ segments = <<>>) => \A i \in DOMAIN fingerprint : ~fingerprint[i]

\* No step of finger clears a bit.
C3_NeverCleared ==
    pc = "loop" => \A i \in DOMAIN fingerprint : fingerprint[i] => fingerprint'[i]

\* C3: when finger succeeds, for every segment index i in 1..S-1, bit i-1 of
\* the returned vector is true iff the summary of segment i is >= the summary
\* of segment i-1; the vector starts all-zero and no step of finger clears a
\* bit that is set.
C3_AdjacentBits ==
    /\ [](C3_BitsFollowSummaries /\ C3_StartsZero)
    /\ [][C3_NeverCleared]_vars

\* A returned vector with an adjacent bit set and another one clear.
C3_Witness ==
    /\ pc = "done"
    /\ \E i, j \in 1..(NUM_FINGERPRINT_SEGMENTS - 1) :
        /\ fingerprint[i] /\ SummaryOf(i + 1) = SummaryOf(i)
        /\ ~fingerprint[j]

\* ------------------------------------------------------------------ C4
\* C4: when finger succeeds, the final bit (index S-1) is true iff the summary
\* of segment 0 is >= the summary of segment S-1; while the loop over the
\* segments is still running the final bit is clear.
C4_WraparoundBit ==
    /\ pc = "done" =>
        (fingerprint[NUM_FINGERPRINT_SEGMENTS]
            <=> (SummaryOf(1) >= SummaryOf(NUM_FINGERPRINT_SEGMENTS)))
    /\ pc = "loop" => ~fingerprint[NUM_FINGERPRINT_SEGMENTS]
    /\ (pc = "done" /\ fingerprint[NUM_FINGERPRINT_SEGMENTS])
            => Len(segments) = NUM_FINGERPRINT_SEGMENTS

\* Returned vectors with the final bit set on a strictly greater first summary.
C4_Witness ==
    /\ pc = "done"
    /\ fingerprint[NUM_FINGERPRINT_SEGMENTS]
    /\ SummaryOf(1) > SummaryOf(NUM_FINGERPRINT_SEGMENTS)
    /\ ~fingerprint[1]

\* ------------------------------------------------------------------ C5
\* C5: every processed segment of size k > 0 whose bytes were all read has
\* the summary floor(sum of its k bytes / k); the quotient is in 0..U8_MAX, so
\* the conversion to u8 changes nothing.
C5_MeanValue ==
    \A j \in 1..Len(segments) :
        (segments[j].size > 0 /\ segments[j].value.some) =>
            LET k == segment_sizes[j]
                q == SumSeq(BytesOf(j)) \div k
            IN /\ segments[j].size = k
               /\ q \in 0..U8_MAX
               /\ SummaryOf(j) = q

\* Two-byte segments with their summaries: one whose sum exceeds U8_MAX, one
\* whose mean is truncated.
C5_Witness ==
    \E j, k \in 1..Len(segments) :
        /\ segments[j].size = 2
        /\ segments[j].value.some
        /\ SumSeq(BytesOf(j)) > U8_MAX
        /\ segments[k].size = 2
        /\ segments[k].value.some
        /\ SumSeq(BytesOf(k)) % 2 = 1

\* ------------------------------------------------------------------ C6
\* C6: for every processed segment of size 0 no byte of the file is read, its
\* summary is the next word of the seed's generator after the partitioning
\* draws (one word per empty segment, in index order), and processing it
\* never ends the computation in an error.
C6_EmptySegment ==
    /\ \A j \in 1..Len(segments) :
        segments[j].size = 0 =>
            /\ nreads[j] = 0
            /\ segments[j].value.some
            /\ iter.rng.seed = rng.seed
            /\ rng.word_pos + ZerosBefore(j) + 1 \in DOMAIN stream
            /\ SummaryOf(j) = gen_u8(stream[rng.word_pos + ZerosBefore(j) + 1])
    /\ (pc \in {"failed", "panicked"} /\ segments # <<>>)
            => segments[Len(segments)].size > 0

\* Two empty segments processed after partition draws were made.
C6_Witness ==
    /\ pc = "loop"
    /\ rng.word_pos > 0
    /\ \E j, k \in 1..Len(segments) :
        /\ j < k
        /\ segments[j].size = 0
        /\ segments[k].size = 0
        /\ SummaryOf(j) # SummaryOf(k)

\* ------------------------------------------------------------------ C7
\* C7: on a zero-byte file that could be opened, the table is S zeros, finger
\* reads no byte, takes every summary from the generator fallback, never
\* fails, and a second run returns the same vector as the first.
C7_EmptyFile ==
    Len(file) = 0 =>
        /\ pc \notin {"failed", "panicked"}
        /\ TableBuilt => segment_sizes = [i \in 1..NUM_FINGERPRINT_SEGMENTS |-> 0]
        /\ TableBuilt => rng.word_pos = 0
        /\ \A j \in 1..Len(nreads) : nreads[j] = 0
        /\ \A j \in 1..Len(segments) :
            /\ segments[j].size = 0
            /\ segments[j].value = Some(gen_u8(stream[j]))
        /\ pc = "done" => Len(segments) = NUM_FINGERPRINT_SEGMENTS
        /\ (pc = "done" /\ run = 2) => fingerprint = prev.val.fingerprint

\* The second run over the empty file has returned a vector with a set bit.
C7_Witness ==
    /\ Len(file) = 0
    /\ run = 2
    /\ pc = "done"
    /\ \E i \in DOMAIN fingerprint : fingerprint[i]
    /\ \E i \in DOMAIN fingerprint : ~fingerprint[i]

\* ------------------------------------------------------------------ C8
\* Positions below n at which the two vectors agree.
Matches(a, b) == Cardinality({i \in 1..Min(Len(a), Len(b)) : a[i] = b[i]})

C9_Range ==
    cmp_ab.some =>
        /\ f64_le(f64_div(0, 1), cmp_ab.val)
        /\ f64_le(cmp_ab.val, f64_div(1, 1))

\* The range does hold for every pair with n > 0.
C9_RangeNonEmpty ==
    (cmp_ab.some /\ Min(Len(cmp_a), Len(cmp_b)) > 0) => C9_Range

\* ------------------------------------------------------------------ C10
\* C10: for all pairs of fingerprints a, b of equal length,
\* compare(a, b) == compare(b, a).
C10_Symmetry ==
    (cmp_ab.some /\ cmp_ba.some /\ Len(cmp_a) = Len(cmp_b))
        => f64_eq(cmp_ab.val, cmp_ba.val)

\* The two scores are equal for every pair of equal length n > 0.
C10_SymmetryNonEmpty ==
    Len(cmp_a) > 0 => C10_Symmetry

\* ------------------------------------------------------------------ C11
\* C11: when compare is invoked and at least one of the two fingerprints has
\* a zero-length bit vector (n = 0), the comparison fails with an error: it
\* does not divide by zero and return a number (an f64) to the caller.
C11_ZeroLengthFails ==
    (cmp_ab.some /\ Min(Len(cmp_a), Len(cmp_b)) = 0)
        => cmp_ab.val.kind \notin {"num", "nan", "inf"}

\* ------------------------------------------------------------------ C13
\* C13: compare returns the maximum of the direct similarity and the
\* reversed similarity, so two fingerprints holding the same bits in reverse
\* order of each other score 1.0.
C13_ReturnsMaximum ==
    cmp_ab.some =>
        LET sc == similarities(cmp_a, cmp_b)
        IN /\ cmp_ab.val = f64_max(sc.similarity, sc.reversed_similarity)
           /\ (Len(cmp_a) > 0 /\ cmp_b = rev(cmp_a)) => cmp_ab.val = f64_div(1, 1)

\* ------------------------------------------------------------------ C12
\* A segment is left without a value exactly by a failed read; it is the last
\* one processed, the computation has returned the error, and its bytes were
\* asked for at most once each.
C12_FailedReadIsFatal ==
    /\ \A j \in 1..Len(segments) :
        ~segments[j].value.some =>
            /\ j = Len(segments)
            /\ pc = "failed"
            /\ nreads[j] \in 1..segments[j].size
    /\ pc = "failed" => (segments # <<>> /\ ~segments[Len(segments)].value.some)
    /\ pc = "done" =>
        /\ Len(segments) = NUM_FINGERPRINT_SEGMENTS
        /\ \A j \in 1..Len(segments) : segments[j].value.some

\* Nothing happens after the error has been returned.
C12_ErrorIsFinal == pc = "failed" => UNCHANGED vars

\* C12: if a byte read fails during a fingerprint computation, the
\* computation returns an error: no further segment is processed, nothing is
\* retried, and a bit vector is returned only when every read succeeded.
C12_ReadFailure ==
    /\ []C12_FailedReadIsFatal
    /\ [][C12_ErrorIsFinal]_vars

\* A computation that failed on the second byte of a later segment, with a
\* bit of the abandoned vector already set.
C12_Witness ==
    /\ pc = "failed"
    /\ Len(segments) >= 2
    /\ nreads[Len(segments)] = 2
    /\ \E i \in DOMAIN fingerprint : fingerprint[i]

\* ------------------------------------------------------------------ C15
\* C15: for the file of S bytes whose byte at offset i is i, every segment
\* has size 1 and summary i, every adjacent-pair bit (indices 0..S-2) of the
\* returned vector is true and the wraparound bit (index S-1) is false.
C15_IncreasingFile ==
    file = IncreasingFile =>
        /\ TableBuilt => \A i \in DOMAIN segment_sizes : segment_sizes[i] = 1
        /\ \A j \in 1..Len(segments) :
            segments[j].value.some =>
                (segments[j].size = 1 /\ segments[j].index = j - 1 /\ SummaryOf(j) = j - 1)
        /\ pc = "done" =>
            /\ \A i \in 0..(NUM_FINGERPRINT_SEGMENTS - 2) : fingerprint[i + 1]
            /\ ~fingerprint[(NUM_FINGERPRINT_SEGMENTS - 1) + 1]

\* The vector of the increasing file has been returned.
C15_Witness ==
    /\ file = IncreasingFile
    /\ pc = "done"
    /\ Len(segments) = NUM_FINGERPRINT_SEGMENTS
    /\ SummaryOf(NUM_FINGERPRINT_SEGMENTS) = NUM_FINGERPRINT_SEGMENTS - 1

\* ------------------------------------------------------------------ C16
\* The byte offsets of the j-th processed segment.
RangeOf(j) == {o \in 0..(Len(file) - 1) :
                 segments[j].pos <= o /\ o < segments[j].pos + segments[j].size}

\* C16: the segment iterator yields the segments with indices 0, 1, ..., S-1
\* in that order and then ends; segment 0 starts at offset 0, every segment
\* starts at the sum of the sizes of the earlier ones and has its table
\* entry as size; the byte ranges are pairwise disjoint and, once all S are
\* yielded, cover exactly the offsets [0, N).
C16_SegmentsPartitionFile ==
    pc \in {"loop", "done", "failed"} =>
        /\ Len(segments) <= NUM_FINGERPRINT_SEGMENTS
        /\ iter.index = Len(segments)
        /\ \A j \in 1..Len(segments) :
            /\ segments[j].index = j - 1
            /\ segments[j].pos = SumSeq([k \in 1..(j - 1) |-> segments[k].size])
            /\ segments[j].size = segment_sizes[j]
            /\ segments[j].pos + segments[j].size <= Len(file)
        /\ \A j, k \in 1..Len(segments) : j # k => RangeOf(j) \cap RangeOf(k) = {}
        /\ pc = "done" => Len(segments) = NUM_FINGERPRINT_SEGMENTS
        /\ Len(segments) = NUM_FINGERPRINT_SEGMENTS =>
            UNION {RangeOf(j) : j \in 1..Len(segments)} = 0..(Len(file) - 1)

\* All segments of a file with segments of size 2, 1 yielded.
C16_Witness ==
    /\ pc = "done"
    /\ Len(segments) = NUM_FINGERPRINT_SEGMENTS
    /\ segments[1].size = 2
    /\ segments[NUM_FINGERPRINT_SEGMENTS].size = 1
    /\ segments[NUM_FINGERPRINT_SEGMENTS].pos = Len(file) - 1

\* ------------------------------------------------------------------ C17
\* C17: for every segment finger has processed successfully (segment 0, whose
\* value is requested twice, included), each of its bytes was read from the
\* file exactly once, none for an empty segment, and any further call of
\* value() on it returns the same memoized summary without a read, whatever
\* the file would answer.
C17_ComputedOnce ==
    \A j \in 1..Len(segments) :
        (j < Len(segments) \/ pc \in {"loop", "done"}) =>
            /\ segments[j].value.some
            /\ nreads[j] = segments[j].size
            /\ \A fail_at \in 0..segments[j].size :
                LET r == RawSegment_value(file, segments[j], fail_at)
                IN /\ r.ok
                   /\ r.val = SummaryOf(j)
                   /\ r.reads = 0
                   /\ r.seg = segments[j]

\* A returned vector whose segment 0 has two bytes.
C17_Witness ==
    /\ pc = "done"
    /\ segments[1].size = 2
    /\ nreads[1] = 2
    /\ first = Some(SummaryOf(1))

\* ------------------------------------------------------------------ C20
\* C20: for every file size (sizes below S and 0 included) finger never hits
\* an arithmetic fault: a segment of size 0 has its value from its creation,
\* so the division by the size is reached with size >= 1 only; `last` is set
\* exactly from segment 1 on, so index - 1 is computed for index >= 1 only;
\* the bit vector keeps its S positions, so every bit written is in [0, S-1].
C20_NoArithmeticFault ==
    /\ pc # "panicked"
    /\ \A j \in 1..Len(segments) : segments[j].size = 0 => segments[j].value.some
    /\ pc = "loop" => (last.some <=> iter.index >= 1)
    /\ pc \in {"loop", "done", "failed"} => Len(fingerprint) = NUM_FINGERPRINT_SEGMENTS

\* A vector returned for a file with fewer bytes than segments, but not empty.
C20_Witness ==
    /\ pc = "done"
    /\ Len(file) > 0
    /\ Len(file) < NUM_FINGERPRINT_SEGMENTS
    /\ segments[1].size = 0
    /\ \E i \in DOMAIN fingerprint : fingerprint[i]

\* ------------------------------------------------------------------ C19
\* C19: the fingerprinter's generator stays in the state the partitioning
\* draws left it in; the iterator's copy has yielded exactly one word per
\* empty segment processed, in index order, and none for a non-empty one;
\* the summary of an empty segment is that word; a second finger call on the
\* same fingerprinter gets the same summaries and returns the same vector.
C19_FallbackFromCopy ==
    /\ TableBuilt =>
        rng.word_pos = (Len(file) % NUM_FINGERPRINT_SEGMENTS) + rejects
    /\ pc \in {"loop", "done", "failed"} =>
        /\ iter.rng.seed = rng.seed
        /\ iter.rng.word_pos = rng.word_pos + ZerosBefore(Len(segments) + 1)
        /\ \A j \in 1..Len(segments) :
            segments[j].size = 0 =>
                segments[j].value = Some(gen_u8(stream[rng.word_pos + ZerosBefore(j) + 1]))
    /\ (run = 2 /\ prev.some) =>
        /\ \A j \in 1..Len(segments) :
            segments[j].value.some => segments[j] = prev.val.segments[j]
        /\ pc = "done" => fingerprint = prev.val.fingerprint

\* The second finger call has returned, on a table with several empty
\* segments behind partition draws.
C19_Witness ==
    /\ run = 2
    /\ pc = "done"
    /\ rng.word_pos > 0
    /\ \E j, k \in 1..Len(segments) :
        /\ j < k
        /\ segments[j].size = 0
        /\ segments[k].size = 0
        /\ SummaryOf(j) # SummaryOf(k)
    /\ \E j \in 1..Len(segments) : segments[j].size > 0

\* ------------------------------------------------------------------ C18
\* C18: an iteration of the partitioner loop changes the table only by adding
\* one to the drawn entry, and only when that entry equals the base size, and
\* then takes one off the remainder; no entry exceeds base + 1; while the
\* remainder is positive some entry still equals the base; the loop is left
\* only with remainder 0; and with fair draws the remainder reaches 0.
C18_LoopTerminates ==
    /\ [](pc = "choose" =>
            /\ remainder < NUM_FINGERPRINT_SEGMENTS
            /\ \A i \in DOMAIN segment_sizes :
                segment_sizes[i] \in {initial_segment_size, initial_segment_size + 1}
            /\ remainder > 0 =>
                \E i \in DOMAIN segment_sizes : segment_sizes[i] = initial_segment_size)
    /\ [][pc = "choose" /\ segment_sizes' # segment_sizes =>
            /\ remainder' = remainder - 1
            /\ \E i \in DOMAIN segment_sizes :
                /\ segment_sizes[i] = initial_segment_size
                /\ segment_sizes' = [segment_sizes EXCEPT ![i] = @ + 1]]_vars
    /\ [][pc = "choose" /\ remainder' # remainder =>
            segment_sizes' # segment_sizes]_vars
    /\ [][pc = "choose" /\ pc' # "choose" => remainder = 0]_vars
    /\ (pc = "choose") ~> (pc = "choose" /\ remainder = 0)

\* The loop has ended after hits on several entries and a draw of an entry
\* that was already incremented.
C18_Witness ==
    /\ pc = "choose"
    /\ remainder = 0
    /\ rejects > 0
    /\ initial_segment_size > 0
    /\ Len(file) % NUM_FINGERPRINT_SEGMENTS > 1

\* ------------------------------------------------------------------ C14
\* C14: a step of one computation changes nothing of the other (generator,
\* table, running offset, accumulators, bit vector); under every interleaving
\* each computation's table, once built, and the bit vector it returns are
\* those of the same computation run alone on its file.
C14_ParallelIndependent ==
    /\ [](\A p \in DOMAIN procs :
            /\ procs[p].pc \in {"constructed", "new_failed", "loop", "done", "failed"} =>
                LET fp == new_alone(procs[p].file)
                IN /\ fp.remainder = 0
                   /\ procs[p].segment_sizes = fp.sizes
                   /\ procs[p].rng = fp.rng
            /\ procs[p].pc = "done" =>
                LET alone == finger_alone(procs[p].file)
                IN /\ alone.ok
                   /\ procs[p].fingerprint = alone.bits
            /\ procs[p].pc # "panicked")
    /\ [][\A p, q \in DOMAIN procs :
            (p # q /\ procs'[p] # procs[p]) => procs'[q] = procs[q]]_vars

\* Both computations have returned, with different vectors, each after
\* draws of its own for empty segments, one after draws for its table.
C14_Witness ==
    /\ DOMAIN procs = Procs
    /\ \A p \in Procs :
        /\ procs[p].pc = "done"
        /\ procs[p].iter.rng.word_pos > procs[p].rng.word_pos
    /\ procs[2].rng.word_pos > 0
    /\ procs[1].fingerprint # procs[2].fingerprint

====
